---- MODULE Spec2Model ----
(***************************************************************************)
(* Model of the video-analysis scripts of sunnytabbies:                    *)
(*   - analyze_videos_with_gemini_pipeline (resume-safe analysis run)      *)
(*   - merge_content_with_analysis (merge of the log into the manifest)    *)
(* Strings are sequences of one-character strings, JSON values are tagged  *)
(* records, a JSON object is a record whose missing keys hold Absent.      *)
(***************************************************************************)
EXTENDS Integers, Sequences, FiniteSets, TLC

(* ------------------------------ bounds -------------------------------- *)

\* longest input list of video paths handed to the pipeline
MaxPaths == 2
\* largest save_every argument tried
MaxSaveEvery == 2
\* client.files.get calls after which processing_max_wait_s has surely elapsed
MaxPolls == 1

(* ---------------------------- JSON values ----------------------------- *)

Absent == [k |-> "absent"]
Null == [k |-> "null"]
Str(s) == [k |-> "str", s |-> s]
List(l) == [k |-> "list", l |-> l]
Dict(d) == [k |-> "dict", d |-> d]

IsStr(v) == v.k = "str"
IsList(v) == v.k = "list"
IsDict(v) == v.k = "dict"

\* len(d) of a JSON object
DictLen(v) == Cardinality({f \in DOMAIN v.d : v.d[f] # Absent})

\* Python truthiness of a JSON value
Truthy(v) ==
    CASE v.k = "str" -> v.s # <<>>
      [] v.k = "list" -> v.l # <<>>
      [] v.k = "dict" -> DictLen(v) > 0
      [] OTHER -> FALSE

\* f in d
Has(v, f) == f \in DOMAIN v.d /\ v.d[f] # Absent

\* d.get(f)
Get(v, f) == IF Has(v, f) THEN v.d[f] ELSE Null

(* ------------------------------ strings ------------------------------- *)

WhiteSpace == {" ", "\t", "\n", "\r"}

RECURSIVE LStrip(_)
LStrip(s) == IF s # <<>> /\ Head(s) \in WhiteSpace THEN LStrip(Tail(s)) ELSE s

RECURSIVE RStrip(_)
RStrip(s) ==
    IF s # <<>> /\ s[Len(s)] \in WhiteSpace THEN RStrip(SubSeq(s, 1, Len(s) - 1)) ELSE s

\* str.strip()
Strip(s) == RStrip(LStrip(s))

UpperLetters == <<"A", "B", "C", "D", "E", "F", "G", "H", "I", "J", "K", "L", "M",
                  "N", "O", "P", "Q", "R", "S", "T", "U", "V", "W", "X", "Y", "Z">>
LowerLetters == <<"a", "b", "c", "d", "e", "f", "g", "h", "i", "j", "k", "l", "m",
                  "n", "o", "p", "q", "r", "s", "t", "u", "v", "w", "x", "y", "z">>
Digits == {"0", "1", "2", "3", "4", "5", "6", "7", "8", "9"}

LowerChar(c) ==
    IF \E n \in 1..Len(UpperLetters) : UpperLetters[n] = c
    THEN LowerLetters[CHOOSE n \in 1..Len(UpperLetters) : UpperLetters[n] = c]
    ELSE c

\* str.lower()
Lower(s) == [n \in 1..Len(s) |-> LowerChar(s[n])]

\* str.endswith(suffix)
EndsWith(s, suffix) ==
    /\ Len(s) >= Len(suffix)
    /\ SubSeq(s, Len(s) - Len(suffix) + 1, Len(s)) = suffix

\* str.find(c, from): first position >= from holding c, 0 when there is none
Find(s, c, from) ==
    LET hits == {n \in from..Len(s) : s[n] = c}
    IN IF hits = {} THEN 0 ELSE CHOOSE n \in hits : \A m \in hits : n <= m

\* str.rfind(c): last position holding c, 0 when there is none
RFind(s, c) ==
    LET hits == {n \in 1..Len(s) : s[n] = c}
    IN IF hits = {} THEN 0 ELSE CHOOSE n \in hits : \A m \in hits : m <= n

\* s[:n-1], the part before position n
Before(s, n) == SubSeq(s, 1, n - 1)
\* s[n:], the part after position n
After(s, n) == SubSeq(s, n + 1, Len(s))

IsLetter(c) == \E n \in 1..Len(LowerLetters) : LowerLetters[n] = c \/ UpperLetters[n] = c

\* urllib.parse: the characters a scheme may hold
SchemeChar(c) == IsLetter(c) \/ c \in Digits \/ c \in {"+", "-", "."}

\* urllib.parse.uses_params
UsesParams ==
    { <<>>,
      <<"f", "t", "p">>,
      <<"h", "d", "l">>,
      <<"p", "r", "o", "s", "p", "e", "r", "o">>,
      <<"h", "t", "t", "p">>,
      <<"i", "m", "a", "p">>,
      <<"h", "t", "t", "p", "s">>,
      <<"s", "h", "t", "t", "p">>,
      <<"r", "t", "s", "p">>,
      <<"r", "t", "s", "p", "u">>,
      <<"s", "i", "p">>,
      <<"s", "i", "p", "s">>,
      <<"m", "m", "s">>,
      <<"s", "f", "t", "p">>,
      <<"t", "e", "l">> }

\* urlsplit: the url starts with a scheme that ends before position c
HasScheme(u, c) ==
    /\ c > 1
    /\ IsLetter(u[1])
    /\ \A n \in 1..(c - 1) : SchemeChar(u[n])

\* the scheme in lower case, <<>> when the url has none
UrlScheme(u, c) == IF HasScheme(u, c) THEN Lower(Before(u, c)) ELSE <<>>

\* the url after its scheme
AfterScheme(u, c) == IF HasScheme(u, c) THEN After(u, c) ELSE u

\* where the netloc of "//netloc..." ends: the first of / ? # from position 3 on
NetlocEnd(u, ends) ==
    IF ends = {} THEN Len(u) + 1 ELSE CHOOSE n \in ends : \A m \in ends : n <= m

\* the url after its netloc
AfterNetloc(u) ==
    IF Len(u) >= 2 /\ u[1] = "/" /\ u[2] = "/"
    THEN SubSeq(u, NetlocEnd(u, {n \in 3..Len(u) : u[n] \in {"/", "?", "#"}}), Len(u))
    ELSE u

\* the part before position n, the whole when n = 0
CutAt(u, n) == IF n > 0 THEN Before(u, n) ELSE u

\* the part before the first c
CutFrom(u, c) == CutAt(u, Find(u, c, 1))

\* urlparse: the ;params of the last path segment are cut for uses_params schemes
CutParams(scheme, u, sl) ==
    IF scheme \in UsesParams THEN CutAt(u, Find(u, ";", IF sl > 0 THEN sl ELSE 1)) ELSE u

\* the path left after scheme, netloc, fragment and query
SplitPath(u) == CutFrom(CutFrom(AfterNetloc(u), "#"), "?")

\* the path of a url without leading white space and with its first colon at c
PathOf(u, c, path) == CutParams(UrlScheme(u, c), path, RFind(path, "/"))

UrlPathStripped(u, c) == PathOf(u, c, SplitPath(AfterScheme(u, c)))

\* urlsplit drops tab, carriage return and line feed wherever they stand
UnsafeBytes == {"\t", "\r", "\n"}

RemoveUnsafe(s) == SelectSeq(s, LAMBDA c : c \notin UnsafeBytes)

\* the path of a url that urlsplit has cleaned
UrlPathClean(u) == UrlPathStripped(u, Find(u, ":", 1))

\* urlparse(url).path
UrlPath(url) == UrlPathClean(RemoveUnsafe(LStrip(url)))

\* the escapes unquote decodes here; other %xx stay as written
Escapes ==
    [e \in { <<"2", "0">>, <<"2", "D">>, <<"2", "E">>, <<"2", "F">> } |->
        CASE e = <<"2", "0">> -> " "
          [] e = <<"2", "D">> -> "-"
          [] e = <<"2", "E">> -> "."
          [] e = <<"2", "F">> -> "/"]

RECURSIVE Unquote(_)
\* urllib.parse.unquote
Unquote(s) ==
    IF s = <<>> THEN <<>>
    ELSE IF Head(s) = "%" /\ Len(s) >= 3 /\ SubSeq(s, 2, 3) \in DOMAIN Escapes
    THEN <<Escapes[SubSeq(s, 2, 3)]>> \o Unquote(SubSeq(s, 4, Len(s)))
    ELSE <<Head(s)>> \o Unquote(Tail(s))

RECURSIVE SplitSlash(_)
\* the non-empty components of a path that are not "."
SplitSlash(s) ==
    LET n == Find(s, "/", 1)
        first == IF n > 0 THEN Before(s, n) ELSE s
        rest == IF n > 0 THEN SplitSlash(After(s, n)) ELSE <<>>
    IN IF first = <<>> \/ first = <<".">> THEN rest ELSE <<first>> \o rest

\* Path(s).name
PathName(s) ==
    LET parts == SplitSlash(s)
    IN IF parts = <<>> THEN <<>> ELSE parts[Len(parts)]

(* ------------------------------- paths -------------------------------- *)

\* pathlib's PurePath.stem of a file name
Stem(name) ==
    LET dots == {j \in 1..Len(name) : name[j] = "."}
        i == IF dots = {} THEN 0 ELSE CHOOSE j \in dots : \A q \in dots : q <= j
    IN IF i > 1 /\ i < Len(name) THEN SubSeq(name, 1, i - 1) ELSE name

\* the video files the caller may name: two share the stem "a"
VideoNames == { <<"a", ".", "m">>, <<"a", ".", "v">>, <<"b", ".", "m">> }
VideoDir == <<"/", "v">>
VideoPaths == [parent : {VideoDir}, name : VideoNames]

\* str(path)
PathStr(p) == p.parent \o <<"/">> \o p.name

asset_key_from_path(p) == Stem(p.name)

Keys == {asset_key_from_path(p) : p \in VideoPaths}

(* ------------------------------ records ------------------------------- *)

\* the object without keys
EmptyDict ==
    Dict([status |-> Absent, main_story |-> Absent, kitten_details |-> Absent,
          details |-> Absent])

\* every key a log record may carry
Rec(ak, fn, op, an, er, st, de, me) ==
    Dict([asset_key |-> ak, original_filename |-> fn, original_path |-> op,
          analysis |-> an, error |-> er, story |-> st, details |-> de, meta |-> me])

\* VideoAnalysis.model_dump(): status, main_story, kitten_details
AnalysisDump ==
    Dict([status |-> Str(<<"c">>), main_story |-> Str(<<"s">>),
          kitten_details |-> Null, details |-> Absent])

\* the record analyze_video returns, stamped with asset_key
SuccessRecord(p) ==
    Rec(Str(asset_key_from_path(p)), Str(p.name), Str(PathStr(p)),
        AnalysisDump, Absent, Absent, Absent, Absent)

\* err_record of the except branch; msg is str(e)
ErrRecord(p, msg) ==
    Rec(Str(asset_key_from_path(p)), Str(p.name), Str(PathStr(p)),
        Absent, Str(msg), Absent, Absent, Absent)

\* str(e) of an exception raised by ffmpeg, the SDK or the network
ExcMsgs == { <<>>, <<"e">> }
\* the messages of the exceptions the code raises itself
MsgFfmpeg == <<"f">>
MsgFailed == <<"x">>
MsgTimeout == <<"t">>
MsgNoParsed == <<"n">>

(* ------------------------------ log file ------------------------------ *)

EmptyBy == [k \in Keys |-> Absent]

FreshStore == [by_asset_key |-> EmptyBy, migrated_from_list |-> FALSE]

RECURSIVE MigrateList(_, _)
\* the loop of load_existing_results over an old-format list
MigrateList(recs, by) ==
    IF recs = <<>> THEN by
    ELSE LET r == Head(recs)
             ak == IF IsDict(r) THEN Get(r, "asset_key") ELSE Null
             fn == IF IsDict(r) THEN Get(r, "original_filename") ELSE Null
             k == IF Truthy(ak) THEN ak.s
                  ELSE IF IsStr(fn) THEN Stem(fn.s) ELSE <<>>
         IN IF IsDict(r) /\ k # <<>>
            THEN MigrateList(Tail(recs), [by EXCEPT ![k] = r])
            ELSE MigrateList(Tail(recs), by)

load_existing_results(f) ==
    CASE f.kind = "dict" ->
            [by_asset_key |-> f.by_asset_key, migrated_from_list |-> f.migrated_from_list]
      [] f.kind = "list" ->
            [by_asset_key |-> MigrateList(f.recs, EmptyBy), migrated_from_list |-> TRUE]
      [] OTHER -> FreshStore

\* the file write_results leaves
write_results(data) ==
    [kind |-> "dict", by_asset_key |-> data.by_asset_key,
     migrated_from_list |-> data.migrated_from_list]

\* already_done that counts only records with an analysis
AlreadyDoneAnalysisOnly(by) ==
    {k \in Keys : /\ by[k] # Absent
                  /\ IsDict(by[k])
                  /\ Truthy(Get(by[k], "analysis"))}

\* already_done of the pipeline
AlreadyDone(by) ==
    {k \in Keys : /\ by[k] # Absent
                  /\ IsDict(by[k])
                  /\ (Truthy(Get(by[k], "analysis")) \/ Truthy(Get(by[k], "error")))}

(* --------------------- states of an uploaded file --------------------- *)

\* "" stands for a file object without a state name
FileStates == {"", "PROCESSING", "processing", "FAILED", "ACTIVE"}

\* the state name compared as it is, without upper()
UpperAsIs(s) == s

\* str(state_name).upper()
Upper(s) == IF s = "processing" THEN "PROCESSING" ELSE s

(* --------------------------- initial inputs --------------------------- *)

PathA == [parent |-> VideoDir, name |-> <<"a", ".", "m">>]
PathB == [parent |-> VideoDir, name |-> <<"b", ".", "m">>]

\* a record without asset_key, as older logs held them
OldRecord(p) ==
    Rec(Absent, Str(p.name), Str(PathStr(p)), AnalysisDump, Absent, Absent, Absent, Absent)

\* a record whose analysis is an empty object and that has no error
HollowRecord(p) ==
    Rec(Str(asset_key_from_path(p)), Str(p.name), Str(PathStr(p)),
        EmptyDict, Absent, Absent, Absent, Absent)

InitRecords ==
    [k \in Keys |->
        IF k = <<"a">>
        THEN {Absent, SuccessRecord(PathA), ErrRecord(PathA, <<"e">>),
              ErrRecord(PathA, <<>>), Null}
        ELSE {Absent, SuccessRecord(PathB), HollowRecord(PathB)}]

InitLogs ==
    {[kind |-> "absent"], [kind |-> "other"]}
    \cup {[kind |-> "list", recs |-> l] :
            l \in { <<Null, OldRecord(PathA)>>,
                    <<SuccessRecord(PathA), ErrRecord(PathB, <<>>)>> }}
    \cup {[kind |-> "dict", by_asset_key |-> by, migrated_from_list |-> FALSE] :
            by \in {f \in [Keys -> UNION {InitRecords[k] : k \in Keys}] :
                        \A k \in Keys : f[k] \in InitRecords[k]}}

PathLists == UNION {[1..n -> VideoPaths] : n \in 0..MaxPaths}

(* ------------------------------- state -------------------------------- *)

NoExc == [k |-> "none"]
NotWritten == [kind |-> "none"]
NoStats == [matched |-> 0, skipped |-> 0, missing_key |-> 0, no_match |-> 0]

VARIABLES
    logFile,                \* content of cfg.log_file on disk
    temp,                   \* stems whose shrunk file in temp_dir is up to date
    pc,                     \* position of the pipeline
    paths,                  \* the normalised input list
    save_every,
    store,                  \* the in-memory store
    already_done,
    i,                      \* position in paths of the loop
    processed_since_save,
    uploaded,               \* state name of the uploaded file object
    polls,                  \* client.files.get calls of this wait_until_ready
    loaded,                 \* by_asset_key as loaded when this run started
    nproc,                  \* per key: paths of this run that went past the skip
    steps,                  \* external steps of the iteration in progress or just ended
    rerun,                  \* this run repeats a completed run on the log it left
    caught,                 \* str(e) caught by the iteration that just ended, or NoExc
    content_file,           \* the manifest at content_path
    analysis_file,          \* the file at analysis_path
    overwrite_existing,
    out_file,               \* what the merge wrote to out_path
    stats,                  \* the counters the merge returned
    mpc,                    \* position of the merge
    kname,                  \* name of a video file, <<>> when no file is looked at
    kitem,                  \* the manifest item whose key is derived
    kstored,                \* the key the pipeline stores the file under
    kderived,               \* what _derive_asset_key_from_item returned
    kpc                     \* position of the key derivation

pvars == <<logFile, temp, pc, paths, save_every, store, already_done, i,
           processed_since_save, uploaded, polls, loaded, nproc, steps, rerun,
           caught>>

mvars == <<content_file, analysis_file, overwrite_existing, out_file, stats, mpc>>

kvars == <<kname, kitem, kstored, kderived, kpc>>

vars == <<pvars, mvars, kvars>>

\* no key has been derived
KeyIdle ==
    /\ kname = <<>>
    /\ kitem = Null
    /\ kstored = Absent
    /\ kderived = Absent
    /\ kpc = "idle"

\* the merge has not been called
MergeIdle ==
    /\ content_file = [kind |-> "list", items |-> <<>>]
    /\ analysis_file = [kind |-> "absent"]
    /\ overwrite_existing = FALSE
    /\ out_file = NotWritten
    /\ stats = NoStats
    /\ mpc = "idle"

Init ==
    /\ logFile \in InitLogs
    /\ temp \in {{}, {<<"a">>}}
    /\ pc = "idle"
    /\ paths = <<>>
    /\ save_every = 1
    /\ store = FreshStore
    /\ already_done = {}
    /\ i = 1
    /\ processed_since_save = 0
    /\ uploaded = ""
    /\ polls = 0
    /\ loaded = EmptyBy
    /\ nproc = [k \in Keys |-> 0]
    /\ steps = <<>>
    /\ rerun = FALSE
    /\ caught = NoExc
    /\ MergeIdle
    /\ KeyIdle

current == paths[i]
asset_key == asset_key_from_path(current)

(* ------------------------------ pipeline ------------------------------ *)

\* lines 233-260: load, already_done, normalise, empty and missing checks
StartRun(ps, n, all_exist) ==
    /\ paths' = ps
    /\ save_every' = n
    /\ store' = load_existing_results(logFile)
    /\ loaded' = load_existing_results(logFile).by_asset_key
    /\ already_done' = AlreadyDone(load_existing_results(logFile).by_asset_key)
    /\ pc' = IF ps = <<>> THEN "done"
             ELSE IF ~all_exist THEN "aborted" ELSE "loop"
    /\ i' = 1
    /\ processed_since_save' = 0
    /\ nproc' = [k \in Keys |-> 0]
    /\ steps' = <<>>
    /\ caught' = NoExc
    /\ UNCHANGED <<logFile, temp, uploaded, polls>>

\* a call of the pipeline
Run ==
    /\ UNCHANGED mvars
    /\ UNCHANGED kvars
    /\ pc = "idle"
    /\ \E ps \in PathLists, n \in 1..MaxSaveEvery, all_exist \in BOOLEAN :
            StartRun(ps, n, all_exist)
    /\ rerun' = FALSE

\* the same call again, on the log file the completed run left
Rerun ==
    /\ UNCHANGED mvars
    /\ UNCHANGED kvars
    /\ pc = "done"
    /\ \E all_exist \in BOOLEAN : StartRun(paths, save_every, all_exist)
    /\ rerun' = TRUE

\* lines 265-269
Skip ==
    /\ UNCHANGED mvars
    /\ UNCHANGED kvars
    /\ pc = "loop"
    /\ i <= Len(paths)
    /\ asset_key \in already_done
    /\ i' = i + 1
    /\ steps' = <<>>
    /\ caught' = NoExc
    /\ UNCHANGED <<logFile, temp, pc, paths, save_every, store, already_done,
                   processed_since_save, uploaded, polls, loaded, nproc, rerun>>

\* the except branch without its write_results
ExceptBranchNoWrite(msg, done) ==
    /\ store' = [store EXCEPT !.by_asset_key[asset_key] = ErrRecord(current, msg)]
    /\ steps' = done \o <<"store">>
    /\ caught' = Str(msg)
    /\ i' = i + 1
    /\ pc' = "loop"
    /\ uploaded' = ""
    /\ polls' = 0
    /\ UNCHANGED <<logFile, paths, save_every, already_done, processed_since_save, loaded>>

\* lines 298-310: the except branch, msg is str(e), done the steps taken so far
ExceptBranch(msg, done) ==
    /\ store' = [store EXCEPT !.by_asset_key[asset_key] = ErrRecord(current, msg)]
    /\ logFile' = write_results(store')
    /\ steps' = done \o <<"store", "write">>
    /\ caught' = Str(msg)
    /\ i' = i + 1
    /\ pc' = "loop"
    /\ uploaded' = ""
    /\ polls' = 0
    /\ UNCHANGED <<paths, save_every, already_done, processed_since_save, loaded>>

\* lines 271-280: reuse the shrunk file or shrink_video
Prepare ==
    /\ UNCHANGED mvars
    /\ UNCHANGED kvars
    /\ pc = "loop"
    /\ i <= Len(paths)
    /\ asset_key \notin already_done
    /\ nproc' = [nproc EXCEPT ![asset_key] = @ + 1]
    /\ UNCHANGED rerun
    /\ \/ /\ asset_key \in temp
          /\ steps' = <<"reuse">>
          /\ caught' = NoExc
          /\ pc' = "upload"
          /\ UNCHANGED <<logFile, temp, paths, save_every, store, already_done, i,
                         processed_since_save, uploaded, polls, loaded>>
       \/ /\ asset_key \notin temp
          /\ temp' = temp \cup {asset_key}
          /\ steps' = <<"shrink">>
          /\ caught' = NoExc
          /\ pc' = "upload"
          /\ UNCHANGED <<logFile, paths, save_every, store, already_done, i,
                         processed_since_save, uploaded, polls, loaded>>
       \/ /\ asset_key \notin temp
          /\ ExceptBranch(MsgFfmpeg, <<"shrink">>)
          /\ UNCHANGED temp

\* line 101: client.files.upload
Upload ==
    /\ UNCHANGED mvars
    /\ UNCHANGED kvars
    /\ pc = "upload"
    /\ UNCHANGED <<temp, nproc, rerun>>
    /\ \/ /\ \E s \in FileStates : uploaded' = s
          /\ polls' = 0
          /\ steps' = Append(steps, "upload")
          /\ pc' = "poll"
          /\ UNCHANGED <<logFile, paths, save_every, store, already_done, i,
                         processed_since_save, loaded, caught>>
       \/ \E msg \in ExcMsgs : ExceptBranch(msg, Append(steps, "upload"))

\* the steps with the state check of wait_until_ready noted
Polled == IF steps # <<>> /\ steps[Len(steps)] = "poll" THEN steps ELSE Append(steps, "poll")

\* one turn of the loop of wait_until_ready
Poll ==
    /\ UNCHANGED mvars
    /\ UNCHANGED kvars
    /\ pc = "poll"
    /\ UNCHANGED <<temp, nproc, rerun>>
    /\ IF uploaded # "" /\ Upper(uploaded) = "FAILED"
       THEN ExceptBranch(MsgFailed, Polled)
       ELSE IF uploaded # "" /\ Upper(uploaded) # "PROCESSING"
       THEN /\ pc' = "generate"
            /\ steps' = Polled
            /\ UNCHANGED <<logFile, paths, save_every, store, already_done, i,
                           processed_since_save, uploaded, polls, loaded, caught>>
       ELSE \/ ExceptBranch(MsgTimeout, Polled)
            \/ /\ polls < MaxPolls
               /\ \/ /\ \E s \in FileStates : uploaded' = s
                     /\ polls' = polls + 1
                     /\ steps' = Polled
                     /\ UNCHANGED <<logFile, pc, paths, save_every, store,
                                    already_done, i, processed_since_save, loaded,
                                    caught>>
                  \/ \E msg \in ExcMsgs : ExceptBranch(msg, Polled)

\* the store step saving only once more than save_every records wait
StoreRecordLate(record) ==
    /\ store' = [store EXCEPT !.by_asset_key[asset_key] = record]
    /\ IF processed_since_save + 1 > save_every
       THEN /\ logFile' = write_results(store')
            /\ processed_since_save' = 0
            /\ steps' = steps \o <<"generate", "store", "write">>
       ELSE /\ processed_since_save' = processed_since_save + 1
            /\ steps' = steps \o <<"generate", "store">>
            /\ UNCHANGED logFile
    /\ i' = i + 1
    /\ pc' = "loop"
    /\ uploaded' = ""
    /\ polls' = 0
    /\ UNCHANGED <<paths, save_every, already_done, loaded, caught>>

\* lines 286-296: stamp, store by key, count, save every save_every
StoreRecord(record) ==
    /\ store' = [store EXCEPT !.by_asset_key[asset_key] = record]
    /\ IF processed_since_save + 1 >= save_every
       THEN /\ logFile' = write_results(store')
            /\ processed_since_save' = 0
            /\ steps' = steps \o <<"generate", "store", "write">>
       ELSE /\ processed_since_save' = processed_since_save + 1
            /\ steps' = steps \o <<"generate", "store">>
            /\ UNCHANGED logFile
    /\ i' = i + 1
    /\ pc' = "loop"
    /\ uploaded' = ""
    /\ polls' = 0
    /\ UNCHANGED <<paths, save_every, already_done, loaded, caught>>

\* lines 111-144 and 285-296: generate_content, parse, store
Generate ==
    /\ UNCHANGED mvars
    /\ UNCHANGED kvars
    /\ pc = "generate"
    /\ UNCHANGED <<temp, nproc, rerun>>
    /\ \/ StoreRecord(SuccessRecord(current))
       \/ ExceptBranch(MsgNoParsed, Append(steps, "generate"))
       \/ \E msg \in ExcMsgs : ExceptBranch(msg, Append(steps, "generate"))

\* lines 312-315
Finish ==
    /\ UNCHANGED mvars
    /\ UNCHANGED kvars
    /\ pc = "loop"
    /\ i > Len(paths)
    /\ logFile' = IF processed_since_save # 0 THEN write_results(store) ELSE logFile
    /\ pc' = "done"
    /\ UNCHANGED <<temp, paths, save_every, store, already_done, i,
                   processed_since_save, uploaded, polls, loaded, nproc, steps, rerun,
                   caught>>

Next ==
    \/ Run
    \/ Rerun
    \/ Skip
    \/ Prepare
    \/ Upload
    \/ Poll
    \/ Generate
    \/ Finish

Spec == Init /\ [][Next]_vars

(* -------------------------------- merge -------------------------------- *)

PosterSuffixes == << <<"-", "p", "o", "s", "t", "e", "r", ".", "j", "p", "g">>,
                     <<"-", "p", "o", "s", "t", "e", "r", ".", "j", "p", "e", "g">>,
                     <<"-", "p", "o", "s", "t", "e", "r", ".", "p", "n", "g">>,
                     <<"-", "p", "o", "s", "t", "e", "r", ".", "w", "e", "b", "p">> >>

RECURSIVE CutPoster(_, _)
\* lines 58-62: the name without its poster suffix, else its stem
CutPoster(name, suffixes) ==
    IF suffixes = <<>> THEN Stem(name)
    ELSE IF EndsWith(Lower(name), Head(suffixes))
    THEN SubSeq(name, 1, Len(name) - Len(Head(suffixes)))
    ELSE CutPoster(name, Tail(suffixes))

\* Path(unquote(urlparse(s).path)).name
UrlName(s) == PathName(Unquote(UrlPath(s)))

\* lines 66-67: the stem of the src name, None when src has no name
StemOrNone(name) == IF name # <<>> THEN Str(Stem(name)) ELSE Null

\* the derivation with src tried before poster
DeriveSrcFirst(item) ==
    IF IsStr(Get(item, "asset_key")) /\ Strip(Get(item, "asset_key").s) # <<>>
    THEN Str(Strip(Get(item, "asset_key").s))
    ELSE IF IsStr(Get(item, "src")) /\ Strip(Get(item, "src").s) # <<>>
    THEN StemOrNone(UrlName(Get(item, "src").s))
    ELSE IF IsStr(Get(item, "poster")) /\ Strip(Get(item, "poster").s) # <<>>
    THEN Str(CutPoster(UrlName(Get(item, "poster").s), PosterSuffixes))
    ELSE Null

\* Str(key), or Null for None
derive_asset_key_from_item(item) ==
    IF IsStr(Get(item, "asset_key")) /\ Strip(Get(item, "asset_key").s) # <<>>
    THEN Str(Strip(Get(item, "asset_key").s))
    ELSE IF IsStr(Get(item, "poster")) /\ Strip(Get(item, "poster").s) # <<>>
    THEN Str(CutPoster(UrlName(Get(item, "poster").s), PosterSuffixes))
    ELSE IF IsStr(Get(item, "src")) /\ Strip(Get(item, "src").s) # <<>>
    THEN StemOrNone(UrlName(Get(item, "src").s))
    ELSE Null

\* [str(x) for x in l if str(x).strip()]
NonBlank(l) == SelectSeq(l, LAMBDA x : Strip(x) # <<>>)

\* lines 83-84: the story of the record, "" when it has none
OwnStory(rs) == IF IsStr(rs) /\ Strip(rs.s) # <<>> THEN Strip(rs.s) ELSE <<>>

\* lines 86-87: the details of the record, [] when it has none
OwnDetails(rd) == IF IsList(rd) THEN NonBlank(rd.l) ELSE <<>>

\* lines 91-92: the main_story of the analysis when the record has no story
PipelineStory(a, story) ==
    IF IsDict(a) /\ story = <<>> /\ IsStr(Get(a, "main_story"))
    THEN Strip(Get(a, "main_story").s) ELSE story

\* lines 93-96: kitten_details or details of the analysis when there are none so far
PipelineDetails(a, f, details) ==
    IF IsDict(a) /\ details = <<>> /\ IsList(Get(a, f))
    THEN NonBlank(Get(a, f).l) ELSE details

\* lines 98-106: the provenance
PickMeta(meta, a) == IF IsDict(meta) THEN meta ELSE IF IsDict(a) THEN a ELSE Null

\* story as a string, details as a list of strings, meta as a JSON value
pick_story_details_meta(rec) ==
    [story |-> PipelineStory(Get(rec, "analysis"), OwnStory(Get(rec, "story"))),
     details |-> PipelineDetails(Get(rec, "analysis"), "details",
                     PipelineDetails(Get(rec, "analysis"), "kitten_details",
                                     OwnDetails(Get(rec, "details")))),
     meta |-> PickMeta(Get(rec, "meta"), Get(rec, "analysis"))]

\* not str(item.get("story", "")).strip()
BlankStory(item) == IsStr(Get(item, "story")) /\ Strip(Get(item, "story").s) = <<>>

\* the story test without the check of the item's own story
MayFillStoryAlways(item, overwrite) == TRUE

\* lines 173-179
MayFillStory(item, overwrite) ==
    overwrite \/ ~Has(item, "story") \/ BlankStory(item)

\* the details test without the overwrite flag
MayFillDetailsNoFlag(item, overwrite) ==
    \/ ~Has(item, "details")
    \/ ~IsList(Get(item, "details"))
    \/ Len(Get(item, "details").l) = 0

\* lines 182-188
MayFillDetails(item, overwrite) ==
    \/ overwrite
    \/ ~Has(item, "details")
    \/ ~IsList(Get(item, "details"))
    \/ Len(Get(item, "details").l) = 0

\* lines 191-197
MayFillAnalysis(item, overwrite) ==
    \/ overwrite
    \/ ~Has(item, "analysis")
    \/ ~IsDict(Get(item, "analysis"))
    \/ DictLen(Get(item, "analysis")) = 0

TypeVideo == <<"v", "i", "d", "e", "o">>
TypeYoutube == <<"y", "o", "u", "t", "u", "b", "e">>

\* by_asset_key.get(key)
Lookup(by, key) == IF key \in DOMAIN by /\ by[key] # Absent THEN by[key] ELSE Null

\* lines 173-179: the story of the item after the merge
SetStory(d, item, story, overwrite) ==
    IF story # <<>> /\ MayFillStory(item, overwrite)
    THEN [d EXCEPT !.story = Str(story)] ELSE d

\* lines 182-188: its details
SetDetails(d, item, details, overwrite) ==
    IF details # <<>> /\ MayFillDetails(item, overwrite)
    THEN [d EXCEPT !.details = List(details)] ELSE d

\* lines 191-197: its analysis
SetAnalysis(d, item, meta, overwrite) ==
    IF Truthy(meta) /\ MayFillAnalysis(item, overwrite)
    THEN [d EXCEPT !.analysis = meta] ELSE d

\* lines 171-197: the item with the picked story, details and meta
Picked(item, key, p, overwrite) ==
    Dict(SetAnalysis(SetDetails(SetStory([item.d EXCEPT !.asset_key = Str(key)],
                                         item, p.story, overwrite),
                                item, p.details, overwrite),
                     item, p.meta, overwrite))

\* lines 168-197: the updates of a matched item
Update(item, key, rec, overwrite) ==
    Picked(item, key, pick_story_details_meta(rec), overwrite)

\* lines 154-166: which counter an item with this derived key falls under
OutcomeOf(item, by, key) ==
    IF Get(item, "type") \notin {Str(TypeVideo), Str(TypeYoutube)} THEN "skipped"
    ELSE IF ~Truthy(key) THEN "missing_key"
    ELSE IF ~IsDict(Lookup(by, key.s)) THEN "no_match"
    ELSE "matched"

Outcome(item, by) == OutcomeOf(item, by, derive_asset_key_from_item(item))

\* the item after its turn of the loop, with the join key persisted before the
\* record is looked up
KeyFirst(item, by, key, overwrite) ==
    IF OutcomeOf(item, by, key) = "matched"
    THEN Update(item, key.s, Lookup(by, key.s), overwrite)
    ELSE IF OutcomeOf(item, by, key) = "no_match"
    THEN Dict([item.d EXCEPT !.asset_key = key])
    ELSE item

\* the item after its turn of the loop, given the key derived for it
Merged(item, by, key, overwrite) ==
    IF OutcomeOf(item, by, key) = "matched"
    THEN Update(item, key.s, Lookup(by, key.s), overwrite)
    ELSE item

\* the loop body with the join key persisted before the record is looked up
MergeItemKeyFirst(item, by, overwrite) ==
    KeyFirst(item, by, derive_asset_key_from_item(item), overwrite)

\* one turn of the loop over content
MergeItem(item, by, overwrite) ==
    Merged(item, by, derive_asset_key_from_item(item), overwrite)

\* the TypeErrors, the missing file and the AttributeError on an item that is no object
MergeRaises(content, analysis) ==
    \/ content.kind # "list"
    \/ analysis.kind # "dict"
    \/ \E n \in 1..Len(content.items) : ~IsDict(content.items[n])

Count(items, by, what) == Cardinality({n \in 1..Len(items) : Outcome(items[n], by) = what})

\* merge_content_with_analysis
Merge ==
    /\ mpc = "ready"
    /\ IF MergeRaises(content_file, analysis_file)
       THEN /\ mpc' = "raised"
            /\ UNCHANGED <<out_file, stats>>
       ELSE LET items == content_file.items
                by == analysis_file.by_asset_key
            IN /\ out_file' = [kind |-> "list",
                               items |-> [n \in 1..Len(items) |->
                                            MergeItem(items[n], by, overwrite_existing)]]
               /\ stats' = [matched |-> Count(items, by, "matched"),
                            skipped |-> Count(items, by, "skipped"),
                            missing_key |-> Count(items, by, "missing_key"),
                            no_match |-> Count(items, by, "no_match")]
               /\ mpc' = "merged"
    /\ UNCHANGED <<content_file, analysis_file, overwrite_existing>>
    /\ UNCHANGED pvars
    /\ UNCHANGED kvars

(* --------------------------- merge inputs ------------------------------ *)

\* longest manifest handed to the merge
MaxItems == 2

\* a manifest item
Item(type, ak, poster, src, story, details, analysis) ==
    Dict([type |-> type, asset_key |-> ak, poster |-> poster, src |-> src,
          story |-> story, details |-> details, analysis |-> analysis])

\* provenance objects: one an item may already hold, one a record may bring
OldMeta == Dict([model_id |-> Str(<<"o">>)])
NewMeta == Dict([model_id |-> Str(<<"g">>)])

\* type, asset_key, poster and src of the items that can match a record
KeyedHeads ==
    { <<Str(TypeVideo), Str(<<"a">>), Absent, Absent>>,
      <<Str(TypeVideo), Str(<<" ", "a", " ">>), Absent, Str(<<"v", "/", "b", ".", "m">>)>>,
      <<Str(TypeYoutube), Str(<<" ">>), Str(<<"p", "/", "a", "-", "p", "o", "s", "t", "e", "r", ".", "J", "P", "G", "?", "v", "=", "1">>), Str(<<"v", "/", "b", ".", "m">>)>>,
      <<Str(TypeVideo), Absent, Null, Str(<<"v", "/", "b", ".", "m">>)>> }

\* and of the items that cannot: no key, an empty key, an unknown key, no video
OtherHeads ==
    { <<Str(TypeVideo), Absent, Absent, Absent>>,
      <<Str(TypeVideo), Absent, Str(<<"/">>), Str(<<"v", "/", "b", ".", "m">>)>>,
      <<Str(TypeVideo), Str(<<"z">>), Absent, Absent>>,
      <<Str(<<"i", "m", "a", "g", "e">>), Str(<<"a">>), Absent, Absent>>,
      <<Absent, Absent, Absent, Str(<<"v", "/", "b", ".", "m">>)>> }

\* story, details and analysis of the items tried
ItemBodies ==
    { <<Absent, Absent, Absent>>,
      <<Str(<<" ">>), List(<<>>), EmptyDict>>,
      <<Str(<<"o">>), List(<< <<"o">> >>), OldMeta>>,
      <<Null, Null, Null>>,
      <<Str(<<"o">>), Absent, EmptyDict>> }

Items ==
    {Item(h[1], h[2], h[3], h[4], b[1], b[2], b[3]) : h \in KeyedHeads, b \in ItemBodies}
    \cup {Item(h[1], h[2], h[3], h[4], Str(<<"o">>), List(<< <<"o">> >>), OldMeta) :
            h \in OtherHeads}
    \cup {Null}

\* the analysis records tried under the key "a"
MergeRecords ==
    { Absent,
      Null,
      SuccessRecord(PathA),
      ErrRecord(PathA, <<"e">>),
      Rec(Str(<<"a">>), Absent, Absent,
          Dict([status |-> Absent, main_story |-> Str(<<"s">>),
                kitten_details |-> List(<< <<"k">> >>), details |-> Absent]),
          Absent, Str(<<" ", "n", " ">>), List(<< <<"d">>, <<" ">> >>), NewMeta),
      Rec(Str(<<"a">>), Absent, Absent,
          Dict([status |-> Absent, main_story |-> Str(<<" ", "s">>),
                kitten_details |-> List(<< <<" ">> >>), details |-> List(<< <<"v">> >>)]),
          Absent, Str(<<" ">>), Null, EmptyDict) }

AnalysisFiles ==
    {[kind |-> "absent"], [kind |-> "list", recs |-> <<SuccessRecord(PathA)>>]}
    \cup {[kind |-> "dict",
           by_asset_key |-> [k \in Keys |-> IF k = <<"a">> THEN r ELSE SuccessRecord(PathB)],
           migrated_from_list |-> FALSE] : r \in MergeRecords}

ContentFiles ==
    {[kind |-> "other"]}
    \cup {[kind |-> "list", items |-> l] :
            l \in UNION {[1..n -> Items] : n \in 0..MaxItems}}

\* the pipeline has not been called
PipelineIdle ==
    /\ logFile = [kind |-> "absent"]
    /\ temp = {}
    /\ pc = "idle"
    /\ paths = <<>>
    /\ save_every = 1
    /\ store = FreshStore
    /\ already_done = {}
    /\ i = 1
    /\ processed_since_save = 0
    /\ uploaded = ""
    /\ polls = 0
    /\ loaded = EmptyBy
    /\ nproc = [k \in Keys |-> 0]
    /\ steps = <<>>
    /\ rerun = FALSE
    /\ caught = NoExc

InitMerge ==
    /\ PipelineIdle
    /\ content_file \in ContentFiles
    /\ analysis_file \in AnalysisFiles
    /\ overwrite_existing \in BOOLEAN
    /\ out_file = NotWritten
    /\ stats = NoStats
    /\ mpc = "ready"
    /\ KeyIdle

NextMerge == Merge

SpecMerge == InitMerge /\ [][NextMerge]_vars

(* --------------------------- the join key ----------------------------- *)

\* a poster name that make_video_poster does not produce
PosterNameThumb(stem) == stem \o <<"-", "t", "h", "u", "m", "b", ".", "j", "p", "g">>

\* make_video_poster: the name of the poster of the video with this stem
PosterName(stem) == stem \o <<"-", "p", "o", "s", "t", "e", "r", ".", "j", "p", "g">>

\* the asset_key fields tried: missing, None, blank, a key to strip
KeyFields == {Absent, Null, Str(<<" ">>), Str(<<" ", "k", " ">>)}

\* the poster fields tried: every suffix, upper case, no suffix, no name
PosterFields ==
    { Absent,
      Str(<<" ">>),
      Str(<<"p", "/", "a", "-", "p", "o", "s", "t", "e", "r", ".", "J", "P", "G", "?", "v", "=", "1">>),
      Str(<<"b", "-", "p", "o", "s", "t", "e", "r", ".", "w", "e", "b", "p">>),
      Str(<<"p", "/", "c", "-", "p", "o", "s", "t", "e", "r", ".", "j", "p", "e", "g">>),
      Str(<<"p", "/", "c", "-", "P", "o", "s", "t", "e", "r", ".", "p", "n", "g">>),
      Str(<<"p", "/", "c", ".", "d", ".", "p", "n", "g">>),
      Str(<<"/">>) }

\* the src fields tried: a file, no file name, a url with a fragment, a bare query
SrcFields ==
    { Absent, Null,
      Str(<<"v", "/", "d", ".", "m">>),
      Str(<<"/">>),
      Str(<<"h", "t", "t", "p", "s", ":", "/", "/", "h", "/", "v", "/", "e", ".", "f", ".", "m", "#", "t">>),
      Str(<<"?", "x">>) }

\* the items whose key is derived
KeyItems ==
    {Item(Str(TypeVideo), k, p, s, Absent, Absent, Absent) :
        k \in KeyFields, p \in PosterFields, s \in SrcFields}

\* names of video files: plain ones and ones with characters a url gives a meaning
VideoFileNames ==
    { <<"a", ".", "m">>,
      <<"a", ".", "b", ".", "m">>,
      <<".", "m">>,
      <<"A", " ", "b", ".", "M">>,
      <<"a">>,
      <<"a", ".">>,
      <<"a", "#", "b", ".", "m">>,
      <<"a", "?", "b", ".", "m">>,
      <<"a", "%", "2", "0", "b", ".", "m">>,
      <<"a", ";", "b", ".", "m">>,
      <<"a", ":", "b", ".", "m">>,
      <<" ", "a", ".", "m">>,
      <<"a", "\t", "b", ".", "m">> }

\* where the manifest says the videos and posters are
MediaDirs == { <<>>, <<"v", "/">>, <<"/", "m", "/", "v", "/">>, <<"h", "t", "t", "p", "s", ":", "/", "/", "h", ".", "c", "/", "v", "/">> }

\* a poster of the manifest that belongs to no video
OtherPoster == Str(<<"t", "/", "c", ".", "j", "p", "g">>)
\* the src of an item that is played from elsewhere
OtherSrc == Str(<<"h", "t", "t", "p", "s", ":", "/", "/", "y", "o", "u", "t", "u", ".", "b", "e", "/", "x">>)

\* the items without asset_key that the manifest may hold for the video file:
\* src ends in its name, or poster is the poster made for it
FileItems(name) ==
    {Item(Str(TypeVideo), k, p, Str(d \o name), Absent, Absent, Absent) :
        k \in {Absent, Str(<<" ">>)}, p \in {Absent, OtherPoster}, d \in MediaDirs}
    \cup {Item(Str(TypeYoutube), k, Str(d \o PosterName(Stem(name))), sr,
                Absent, Absent, Absent) :
             k \in {Absent, Str(<<" ">>)}, sr \in {Absent, OtherSrc}, d \in MediaDirs}

\* asset_key_from_path(original_path) of the pipeline for the file
PipelineKey ==
    /\ kpc = "ready"
    /\ kname # <<>>
    /\ kstored' = Str(asset_key_from_path([parent |-> VideoDir, name |-> kname]))
    /\ kpc' = "stored"
    /\ UNCHANGED <<kname, kitem, kderived>>
    /\ UNCHANGED pvars
    /\ UNCHANGED mvars

\* _derive_asset_key_from_item(item) of the merge
DeriveKey ==
    /\ kpc = "stored" \/ (kpc = "ready" /\ kname = <<>>)
    /\ kderived' = derive_asset_key_from_item(kitem)
    /\ kpc' = "derived"
    /\ UNCHANGED <<kname, kitem, kstored>>
    /\ UNCHANGED pvars
    /\ UNCHANGED mvars

InitKey ==
    /\ PipelineIdle
    /\ MergeIdle
    /\ \/ kname = <<>> /\ kitem \in KeyItems
       \/ \E name \in VideoFileNames : kname = name /\ kitem \in FileItems(name)
    /\ kstored = Absent
    /\ kderived = Absent
    /\ kpc = "ready"

NextKey ==
    \/ PipelineKey
    \/ DeriveKey

SpecKey == InitKey /\ [][NextKey]_vars

(* ----------------------- claims on the pipeline ----------------------- *)

\* a log record that counts as a result: an object with a truthy analysis or error
HasResult(r) ==
    /\ r.k = "dict"
    /\ \/ (r.d.analysis.k = "dict" /\ \E f \in DOMAIN r.d.analysis.d : r.d.analysis.d[f].k # "absent")
       \/ (r.d.error.k = "str" /\ Len(r.d.error.s) > 0)

KeyAt(j) == asset_key_from_path(paths[j])

\* C1: a key whose loaded record has a truthy analysis or error is never shrunk,
\* uploaded or analysed in the run, and its record stays as loaded.
C1_ResumeWithoutReprocessing ==
    \A k \in Keys :
        HasResult(loaded[k]) => nproc[k] = 0 /\ store.by_asset_key[k] = loaded[k]

\* a completed run that skipped one input path and processed another
C1_Witness ==
    /\ pc = "done"
    /\ \E j \in 1..Len(paths) : HasResult(loaded[KeyAt(j)])
    /\ \E k \in Keys : nproc[k] > 0

\* C2: within one run every asset_key is shrunk and analysed at most once,
\* even when several input paths share the stem.
C2_AnalysedAtMostOnce ==
    \A k \in Keys : nproc[k] <= 1

\* C3: a run that repeats a completed run on the log that run left performs no
\* shrink, upload or analysis and leaves by_asset_key as loaded.
C3_RerunDoesNothing ==
    rerun => /\ \A k \in Keys : nproc[k] = 0
             /\ store.by_asset_key = loaded

\* C4: an exception caught in an iteration does not end the run: the error record
\* with its message is stored under the key, the log is written in that step and
\* the loop moves on to the next path; the run ends only past the last path.
C4_CatchWriteContinue ==
    [][ /\ (caught' # NoExc /\ i <= Len(paths)) =>
            /\ pc' = "loop"
            /\ i' = i + 1
            /\ paths' = paths
            /\ LET r == store'.by_asset_key[KeyAt(i)]
               IN /\ r.k = "dict"
                  /\ r.d.error = caught'
                  /\ r.d.asset_key = Str(KeyAt(i))
                  /\ r.d.original_path = Str(PathStr(paths[i]))
            /\ logFile'.kind = "dict"
            /\ logFile'.by_asset_key = store'.by_asset_key
        /\ (pc = "loop" /\ pc' = "done") => i > Len(paths)
      ]_vars

\* a completed run whose first video failed and whose second video succeeded
C4_Witness ==
    /\ pc = "done"
    /\ Len(paths) = 2
    /\ KeyAt(1) # KeyAt(2)
    /\ loaded = EmptyBy
    /\ store.by_asset_key[KeyAt(1)].k = "dict"
    /\ store.by_asset_key[KeyAt(1)].d.error.k = "str"
    /\ store.by_asset_key[KeyAt(2)] = SuccessRecord(paths[2])

\* what a resume would load from the log file now
DiskBy == load_existing_results(logFile).by_asset_key

\* success records in memory that the log file does not hold
UnwrittenSuccess ==
    {k \in Keys : /\ store.by_asset_key[k] # DiskBy[k]
                  /\ store.by_asset_key[k].k = "dict"
                  /\ store.by_asset_key[k].d.analysis.k = "dict"}

\* C5: between iterations fewer than save_every success records are unwritten,
\* and with save_every = 1 the log file holds every record of the store.
C5_IncrementalPersistence ==
    pc = "loop" =>
        /\ Cardinality(UnwrittenSuccess) < save_every
        /\ save_every = 1 => store.by_asset_key = DiskBy

\* between iterations with one success record not yet written
C5_Witness ==
    /\ pc = "loop"
    /\ save_every > 1
    /\ Cardinality(UnwrittenSuccess) = save_every - 1
    /\ i > 1

\* position of a step in the order of the pipeline
Rank(op) ==
    CASE op \in {"shrink", "reuse"} -> 1
      [] op = "upload" -> 2
      [] op = "poll" -> 3
      [] op = "generate" -> 4
      [] op = "store" -> 5
      [] op = "write" -> 6

StepsInOrder(st) ==
    /\ \A a, b \in 1..Len(st) : a < b => Rank(st[a]) < Rank(st[b])
    /\ st # <<>> => Rank(st[1]) = 1
    /\ \A a \in 1..Len(st) :
          /\ st[a] \in {"poll", "generate"} => (a > 1 /\ Rank(st[a - 1]) = Rank(st[a]) - 1)
          /\ st[a] = "write" => (a > 1 /\ st[a - 1] = "store")

\* C6: the steps of a video come in the order shrink or reuse, upload, poll,
\* generate, store, write, and generate_content is called only on a file whose
\* last observed state is neither missing, PROCESSING nor FAILED.
C6_StepOrder ==
    [][ /\ StepsInOrder(steps')
        /\ ("generate" \in {steps'[a] : a \in 1..Len(steps')} /\ i' = i + 1) =>
              /\ pc = "generate"
              /\ uploaded \notin {"", "PROCESSING", "processing", "FAILED"}
      ]_vars

\* a video that went through every step
C6_Witness ==
    steps = <<"shrink", "upload", "poll", "generate", "store", "write">>

(* ------------------------- claims on the merge ------------------------- *)

InItems == content_file.items
OutItems == out_file.items

IsVideoItem(it) == it.d.type \in {Str(TypeVideo), Str(TypeYoutube)}

\* the key derived for the item is a non-empty string
HasKey(it) ==
    /\ derive_asset_key_from_item(it).k = "str"
    /\ Len(derive_asset_key_from_item(it).s) > 0

\* the analysis holds an object under the key derived for the item
HasRecord(it) ==
    LET key == derive_asset_key_from_item(it).s
    IN /\ key \in Keys
       /\ analysis_file.by_asset_key[key].k = "dict"

Matched(it) == IsVideoItem(it) /\ HasKey(it) /\ HasRecord(it)

RecordOf(it) == analysis_file.by_asset_key[derive_asset_key_from_item(it).s]

NonBlankStory(it) == it.d.story.k = "str" /\ Strip(it.d.story.s) # <<>>
NonEmptyDetails(it) == it.d.details.k = "list" /\ Len(it.d.details.l) > 0
\* an object with at least one key
NonEmptyDict(v) == v.k = "dict" /\ \E f \in DOMAIN v.d : v.d[f].k # "absent"
NonEmptyAnalysis(it) == NonEmptyDict(it.d.analysis)

\* C8: without overwrite_existing a non-blank story, a non-empty details list and
\* a non-empty analysis object of an item are written back as they were.
C8_FillsOnlyMissing ==
    (mpc = "merged" /\ ~overwrite_existing) =>
        \A n \in 1..Len(InItems) :
            /\ NonBlankStory(InItems[n]) => OutItems[n].d.story = InItems[n].d.story
            /\ NonEmptyDetails(InItems[n]) => OutItems[n].d.details = InItems[n].d.details
            /\ NonEmptyAnalysis(InItems[n]) => OutItems[n].d.analysis = InItems[n].d.analysis

\* a matched item whose story was kept although the record brings another one,
\* and whose missing details were filled
C8_Witness ==
    /\ mpc = "merged"
    /\ ~overwrite_existing
    /\ \E n \in 1..Len(InItems) :
          /\ Matched(InItems[n])
          /\ NonBlankStory(InItems[n])
          /\ pick_story_details_meta(RecordOf(InItems[n])).story # <<>>
          /\ Str(pick_story_details_meta(RecordOf(InItems[n])).story) # InItems[n].d.story
          /\ OutItems[n].d.details # InItems[n].d.details

\* C9 as stated: with overwrite_existing every matched item carries the story,
\* details and provenance picked from its record.
C9_OverwritesWithPicked ==
    (mpc = "merged" /\ overwrite_existing) =>
        \A n \in 1..Len(InItems) :
            Matched(InItems[n]) =>
                LET p == pick_story_details_meta(RecordOf(InItems[n]))
                IN /\ OutItems[n].d.story = Str(p.story)
                   /\ OutItems[n].d.details = List(p.details)
                   /\ OutItems[n].d.analysis = p.meta

\* C9 amended: with overwrite_existing a matched item carries each picked value
\* that is not empty, and keeps its own field where the picked value is empty.
C9_OverwritesWithNonEmptyPicked ==
    (mpc = "merged" /\ overwrite_existing) =>
        \A n \in 1..Len(InItems) :
            Matched(InItems[n]) =>
                LET p == pick_story_details_meta(RecordOf(InItems[n]))
                IN /\ OutItems[n].d.story =
                        IF Len(p.story) > 0 THEN Str(p.story) ELSE InItems[n].d.story
                   /\ OutItems[n].d.details =
                        IF Len(p.details) > 0 THEN List(p.details) ELSE InItems[n].d.details
                   /\ OutItems[n].d.analysis =
                        IF NonEmptyDict(p.meta) THEN p.meta ELSE InItems[n].d.analysis

\* a matched item whose story, details and analysis were all replaced
C9_Witness ==
    /\ mpc = "merged"
    /\ overwrite_existing
    /\ \E n \in 1..Len(InItems) :
          /\ Matched(InItems[n])
          /\ NonBlankStory(InItems[n]) /\ NonEmptyDetails(InItems[n])
          /\ NonEmptyAnalysis(InItems[n])
          /\ OutItems[n].d.story # InItems[n].d.story
          /\ OutItems[n].d.details # InItems[n].d.details
          /\ OutItems[n].d.analysis # InItems[n].d.analysis

\* C10: after the merge every video or youtube item for which a key can be
\* derived carries that key as its asset_key.
C10_AssetKeyEnsured ==
    mpc = "merged" =>
        \A n \in 1..Len(InItems) :
            (IsVideoItem(InItems[n]) /\ HasKey(InItems[n])) =>
                OutItems[n].d.asset_key = derive_asset_key_from_item(InItems[n])

(* ------------------------ claims on the join key ----------------------- *)

\* a field that is a string with more than white space in it
NonBlankStr(v) == v.k = "str" /\ Strip(v.s) # <<>>

\* the file name a poster or src field points to
FileNameOf(v) == PathName(Unquote(UrlPath(v.s)))

\* the poster suffix the name ends with, whatever its case; 0 when it has none
SuffixOf(name) ==
    IF \E n \in 1..Len(PosterSuffixes) : EndsWith(Lower(name), PosterSuffixes[n])
    THEN CHOOSE n \in 1..Len(PosterSuffixes) : EndsWith(Lower(name), PosterSuffixes[n])
    ELSE 0

\* the poster name without its poster suffix, its stem when it has none
PosterKey(name) ==
    IF SuffixOf(name) > 0
    THEN SubSeq(name, 1, Len(name) - Len(PosterSuffixes[SuffixOf(name)]))
    ELSE Stem(name)

\* the key comes from asset_key, from poster, from src, from nothing
FromKey == NonBlankStr(kitem.d.asset_key)
FromPoster == ~FromKey /\ NonBlankStr(kitem.d.poster)
FromSrc == ~FromKey /\ ~NonBlankStr(kitem.d.poster) /\ NonBlankStr(kitem.d.src)
FromNothing == ~FromKey /\ ~NonBlankStr(kitem.d.poster) /\ ~NonBlankStr(kitem.d.src)

\* C11 as stated: the stripped asset_key when it is not blank, else the poster
\* name without its poster suffix (else its stem), else the stem of the src name,
\* and None only when none of the three fields is a non-blank string.
C11_DerivationPriority ==
    kpc = "derived" =>
        /\ FromKey => kderived = Str(Strip(kitem.d.asset_key.s))
        /\ FromPoster => kderived = Str(PosterKey(FileNameOf(kitem.d.poster)))
        /\ FromSrc => kderived = Str(Stem(FileNameOf(kitem.d.src)))
        /\ kderived = Null <=> FromNothing

\* C11 amended: as stated, but a src without file name gives None, and None is
\* returned exactly when no field is a non-blank string or the src used has no
\* file name.
C11_DerivationPriorityOrNone ==
    kpc = "derived" =>
        /\ FromKey => kderived = Str(Strip(kitem.d.asset_key.s))
        /\ FromPoster => kderived = Str(PosterKey(FileNameOf(kitem.d.poster)))
        /\ (FromSrc /\ FileNameOf(kitem.d.src) # <<>>) =>
                kderived = Str(Stem(FileNameOf(kitem.d.src)))
        /\ kderived = Null <=>
                (FromNothing \/ (FromSrc /\ FileNameOf(kitem.d.src) = <<>>))

\* a blank asset_key, a poster with its suffix in upper case and a src: the key
\* is the poster name without the suffix
C11_Witness ==
    /\ kpc = "derived"
    /\ kitem.d.asset_key.k = "str"
    /\ FromPoster
    /\ NonBlankStr(kitem.d.src)
    /\ SuffixOf(FileNameOf(kitem.d.poster)) > 0
    /\ Lower(FileNameOf(kitem.d.poster)) # FileNameOf(kitem.d.poster)
    /\ kderived = Str(<<"a">>)

\* the item says nothing of an asset_key
NoAssetKey == kitem.d.asset_key = Absent

\* the src of the item ends in the name of the file
SrcEndsInName == kitem.d.src.k = "str" /\ EndsWith(kitem.d.src.s, kname)

\* the poster of the item is the poster made for the file
OwnPoster ==
    /\ kitem.d.poster.k = "str"
    /\ EndsWith(kitem.d.poster.s, PosterName(Stem(kname)))

\* characters of a file name that the url parsing of the merge gives a meaning
UrlSpecial == {"%", "?", "#", ";", ":", "\t", "\r", "\n"}

\* a file name that reads the same as a file name and as a url
PlainName(name) ==
    /\ name[1] # " "
    /\ \A n \in 1..Len(name) : name[n] \notin UrlSpecial

====
